---- MODULE Spec2Model ----
(***************************************************************************)
(* The knowledge-base engine of src/src/file_qa.py (class FileQA): the     *)
(* chunker, the per-chatbot FAISS index files, the metadata table          *)
(* (self.metadata, metadata.json) and the add_document / search paths.     *)
(*                                                                         *)
(* Abstractions, all of them on the external collaborators:                *)
(*  - a character is a small integer and a text a sequence of characters;  *)
(*  - the embedding space is the integer line instead of 1536 floats, the  *)
(*    provider is the function Embed, and the float32 conversion of        *)
(*    np.array(...).astype('float32') is the rounding AsFloat32;           *)
(*  - the record field added_at (a timestamp no code path reads) is left   *)
(*    out of the document records.                                         *)
(*  - the wall clock is a tick counter finer than the second that the      *)
(*    generated document identifier keeps;                                 *)
(*  - the calls a statement makes to the file system and to the provider   *)
(*    are logged by name in the field io of the call.                      *)
(***************************************************************************)
EXTENDS Integers, Sequences, FiniteSets, TLC

(***************************************************************************)
(* Bounds of the model.                                                    *)
(***************************************************************************)
\* the largest number of vectors a chatbot's index may hold
MaxVectors == 3

(***************************************************************************)
(* Program constants.                                                      *)
(***************************************************************************)
\* chunk_text's default chunk_size and overlap, the ones add_document uses
DefaultChunkSize == 1000
DefaultOverlap == 100
\* search's default k
DefaultK == 5

(***************************************************************************)
(* Values.                                                                 *)
(***************************************************************************)
\* Python's None
None == "None"
\* chatbot identifiers (the tenants), as the index file name spells them
Chatbots == {"1", "2"}
\* document identifiers a caller supplies
DocIds == {"d1", "d2"}
\* the FileQA instances
Engines == {"e1", "e2"}
\* the instance the single-engine specifications use
MainEngine == "e1"
\* the chatbot whose calls overlap
ConcChatbots == {"1"}

\* the files a caller may name: path |-> mime type and content
LongText == [i \in 1..(DefaultChunkSize + 1) |-> i % 2]
FileSystem ==
  [ p \in {"a.txt", "b.txt", "e.txt", "x.bin"} |->
      CASE p = "a.txt" -> [mime |-> "text/plain", text |-> <<1, 0>>]
        [] p = "b.txt" -> [mime |-> "text/plain", text |-> LongText]
        [] p = "e.txt" -> [mime |-> "text/plain", text |-> <<>>]
        [] p = "x.bin" -> [mime |-> "application/octet-stream", text |-> <<>>] ]
FilePaths == DOMAIN FileSystem
\* the query texts
Queries == {<<0>>, <<1, 1, 1, 1, 1, 1>>}
\* the document_ids argument of search: None, or a list of identifiers
NoFilter == [is_none |-> TRUE]
Filter(ids) == [is_none |-> FALSE, ids |-> ids]
Filters == {NoFilter, Filter({}), Filter({"d1"})}
\* the k a search is called with: fewer and more than an index can hold
Ks == {2, DefaultK}

Min(S) == CHOOSE x \in S : \A y \in S : x <= y
Range(s) == {s[i] : i \in DOMAIN s}

(***************************************************************************)
(* extract_text_from_file: the text of a supported file, or ValueError.    *)
(***************************************************************************)
SupportedMime(mime) ==
  mime \in {"application/pdf",
            "application/vnd.openxmlformats-officedocument.wordprocessingml.document",
            "text/plain"}
extract_text_from_file(file_path) ==
  IF SupportedMime(FileSystem[file_path].mime)
    THEN [raised |-> FALSE, text |-> FileSystem[file_path].text]
    ELSE [raised |-> TRUE, text |-> <<>>]

(***************************************************************************)
(* chunk_text: the while loop, one iteration per recursion.                *)
(***************************************************************************)
\* a Python slice list[start:end]: a negative bound counts from the end and
\* both bounds are clamped to the list
PyBound(list, i) ==
  LET j == IF i < 0 THEN i + Len(list) ELSE i
  IN  IF j < 0 THEN 0 ELSE IF j > Len(list) THEN Len(list) ELSE j
PySlice(list, start, end) ==
  SubSeq(list, PyBound(list, start) + 1, PyBound(list, end))
\* faulty variant: the next window starts where the last one ends
NextStart_NoOverlap(text_len, end, overlap) == end
\* faulty variant: the overlap is taken off after the last window too
NextStart_NoFinalJump(text_len, end, overlap) == end - overlap
\* lines 105-108
NextStart(text_len, end, overlap) ==
  IF text_len = end THEN end ELSE end - overlap
\* faulty variant: the end of the window is not cut to the text
WindowEnd_NoClamp(start, chunk_size, text_len) == start + chunk_size
\* lines 100-102
WindowEnd(start, chunk_size, text_len) ==
  IF start + chunk_size > text_len THEN text_len ELSE start + chunk_size
RECURSIVE ChunkLoop(_, _, _, _, _)
ChunkLoop(text, chunk_size, overlap, start, chunks) ==
  IF ~(start < Len(text))
    THEN chunks
    ELSE LET end == WindowEnd(start, chunk_size, Len(text))
             chunk == PySlice(text, start, end)
         IN  ChunkLoop(text, chunk_size, overlap,
                       NextStart(Len(text), end, overlap), Append(chunks, chunk))
chunk_text(text, chunk_size, overlap) ==
  ChunkLoop(text, chunk_size, overlap, 0, <<>>)

(***************************************************************************)
(* get_embedding and the float32 conversion.                               *)
(***************************************************************************)
\* the provider: a deterministic text -> vector function
Embed(text) ==
  IF text = <<>> THEN 0 ELSE 2 * (Len(text) % 7) + text[1]
\* float64 -> float32 drops the low bits
AsFloat32(x) == 2 * (x \div 2)
\* np.array(chunk_embeddings).astype('float32'), row by row
EmbeddingsArray(chunk_embeddings) ==
  [i \in 1..Len(chunk_embeddings) |-> AsFloat32(chunk_embeddings[i])]
\* faulty variant: the embeddings are collected last chunk first
ChunkEmbeddings_Reversed(chunks) ==
  [i \in 1..Len(chunks) |-> Embed(chunks[Len(chunks) + 1 - i])]
\* the for loop over chunks calling get_embedding
ChunkEmbeddings(chunks) == [i \in 1..Len(chunks) |-> Embed(chunks[i])]

(***************************************************************************)
(* The FAISS IndexFlatL2: ntotal and the stored rows xb, positions 0-based *)
(* (row of position p is xb[p + 1]).                                       *)
(***************************************************************************)
NoFile == [exists |-> FALSE]
EmptyIndex == [ntotal |-> 0, xb |-> <<>>]
\* faulty variant: the new rows are put in front of the stored ones
IndexAdd_Prepend(index, x) ==
  [ntotal |-> index.ntotal + Len(x), xb |-> x \o index.xb]
\* index.add(x)
IndexAdd(index, x) ==
  [ntotal |-> index.ntotal + Len(x), xb |-> index.xb \o x]
\* faiss.write_index / faiss.read_index
WriteIndexFile(index) == [exists |-> TRUE, ntotal |-> index.ntotal, xb |-> index.xb]
ReadIndexFile(file) == [ntotal |-> file.ntotal, xb |-> file.xb]
\* squared L2 distance
L2(q, v) == (q - v) * (q - v)
\* the distance FAISS reports beside the label -1 of a missing neighbour
MissingDistance == L2(0, 16) + 1

(***************************************************************************)
(* index.search(x, k): the k nearest rows by squared L2 distance, nearest  *)
(* first, as the arrays D (distances) and I (positions); the places past   *)
(* ntotal hold the label -1.  Rows at equal distance come in an order the  *)
(* library does not fix, so every order is a possible answer.              *)
(***************************************************************************)
NearestOrders(index, q, m) ==
  { s \in [1..m -> 0..(index.ntotal - 1)] :
      /\ \A i, j \in 1..m : i # j => s[i] # s[j]
      /\ \A i, j \in 1..m : i < j => L2(q, index.xb[s[i] + 1]) <= L2(q, index.xb[s[j] + 1])
      /\ \A p \in 0..(index.ntotal - 1) :
           (\A i \in 1..m : s[i] # p) =>
             \A i \in 1..m : L2(q, index.xb[s[i] + 1]) <= L2(q, index.xb[p + 1]) }
IndexSearch(index, q, k) ==
  LET m == IF k < index.ntotal THEN k ELSE index.ntotal
  IN  { [ D |-> [j \in 1..k |-> IF j <= m THEN L2(q, index.xb[s[j] + 1])
                                          ELSE MissingDistance],
          I |-> [j \in 1..k |-> IF j <= m THEN s[j] ELSE -1] ] :
        s \in NearestOrders(index, q, m) }

(***************************************************************************)
(* The metadata table: a Python dict, so an ordered sequence of entries    *)
(* with distinct keys doc_id.                                              *)
(***************************************************************************)
Keys(table) == {table[i].doc_id : i \in DOMAIN table}
\* faulty variant: start_idx read after the append, without taking the chunks off
DocumentRecord_NoOffset(document_id, file_path, chunks, index, chatbot_id) ==
  [ doc_id      |-> document_id,
    file_path   |-> file_path,
    chunks      |-> chunks,
    num_vectors |-> Len(chunks),
    start_idx   |-> index.ntotal,
    chatbot_id  |-> chatbot_id ]
\* the entry add_document builds for a document
DocumentRecord(document_id, file_path, chunks, index, chatbot_id) ==
  [ doc_id      |-> document_id,
    file_path   |-> file_path,
    chunks      |-> chunks,
    num_vectors |-> Len(chunks),
    start_idx   |-> index.ntotal - Len(chunks),
    chatbot_id  |-> chatbot_id ]
\* faulty variant: a key that is present keeps the entry it has
MetadataSet_KeepOld(table, rec) ==
  IF rec.doc_id \in Keys(table) THEN table ELSE Append(table, rec)
\* self.metadata[document_id] = {...}: a present key keeps its place
MetadataSet(table, rec) ==
  IF rec.doc_id \in Keys(table)
    THEN [i \in DOMAIN table |-> IF table[i].doc_id = rec.doc_id THEN rec ELSE table[i]]
    ELSE Append(table, rec)
\* json.dump(self.metadata, f): an object of key/value pairs, each value an
\* object written as its values in the order of the dict literal
JsonDump(table) ==
  [ i \in DOMAIN table |->
      << table[i].doc_id,
         << table[i].file_path, table[i].chunks, table[i].num_vectors,
            table[i].start_idx, table[i].chatbot_id >> >> ]
\* json.load(f)
JsonLoad(json) ==
  [ i \in DOMAIN json |->
      [ doc_id      |-> json[i][1],
        file_path   |-> json[i][2][1],
        chunks      |-> json[i][2][2],
        num_vectors |-> json[i][2][3],
        start_idx   |-> json[i][2][4],
        chatbot_id  |-> json[i][2][5] ] ]

(***************************************************************************)
(* State.                                                                  *)
(***************************************************************************)
VARIABLES
  indexFile,   \* indexFile[c]: the file indices/index_<c>.bin, or NoFile
  metaFile,    \* the file metadata.json: [exists, json]
  metadata,    \* metadata[e]: self.metadata of engine e
  last,        \* the last call that returned or raised, with what it returned
  running,     \* running[p]: the call thread p is in, and its locals
  now,         \* the wall clock datetime.now() reads, in ticks
  documents    \* the rows of the relational table "documents", in insertion order
vars == <<indexFile, metaFile, metadata, last, running, now, documents>>

\* load_metadata
load_metadata(file) == IF file.exists THEN JsonLoad(file.json) ELSE <<>>
\* faulty variant: only the newest entry is written
save_metadata_NewestOnly(table) ==
  [exists |-> TRUE, json |-> JsonDump(SubSeq(table, Len(table), Len(table)))]
\* save_metadata
save_metadata(table) == [exists |-> TRUE, json |-> JsonDump(table)]

\* faulty variant: a new index every time, the persisted one is not read
get_or_create_index_AlwaysNew(files, chatbot_id) ==
  [index |-> EmptyIndex,
   files |-> [files EXCEPT ![chatbot_id] = WriteIndexFile(EmptyIndex)]]
\* faulty variant: the new index is returned without being written
get_or_create_index_NoPersist(files, chatbot_id) ==
  IF files[chatbot_id].exists
    THEN [index |-> ReadIndexFile(files[chatbot_id]), files |-> files]
    ELSE [index |-> EmptyIndex, files |-> files]
\* get_or_create_index: the index and the files it leaves
get_or_create_index(files, chatbot_id) ==
  IF files[chatbot_id].exists
    THEN [index |-> ReadIndexFile(files[chatbot_id]), files |-> files]
    ELSE [index |-> EmptyIndex,
          files |-> [files EXCEPT ![chatbot_id] = WriteIndexFile(EmptyIndex)]]

\* the vector count of a chatbot's persisted index (0 when there is no file)
Total(files, c) == IF files[c].exists THEN files[c].ntotal ELSE 0

\* no call has returned since the caller took the last outcome
NoCall == [op |-> "none"]
\* the threads that call one engine at the same time
Procs == {"p1", "p2"}
Idle == [pc |-> "idle"]

Init ==
  /\ indexFile = [c \in Chatbots |-> NoFile]
  /\ metaFile = [exists |-> FALSE]
  /\ metadata = [e \in Engines |-> load_metadata([exists |-> FALSE])]
  /\ last = NoCall
  /\ running = [p \in Procs |-> Idle]
  /\ now = 0
  /\ documents = <<>>

(***************************************************************************)
(* add_document, a whole call.  The call raises                            *)
(*   - ValueError when chatbot_id is None (line 115),                      *)
(*   - ValueError when the file type is unsupported (line 91),             *)
(*   - the provider's error when an embedding call fails (line 128),       *)
(*   - ValueError in index.add when there is no chunk: the array           *)
(*     np.array([]) has one dimension and "n, d = x.shape" fails, after    *)
(*     get_or_create_index has run (line 136),                             *)
(* and otherwise appends, records and persists (lines 132-150).            *)
(***************************************************************************)
AddRaised(e, chatbot_id, error) ==
  [op |-> "add_document", outcome |-> error, engine |-> e, chatbot_id |-> chatbot_id]
AddReturned(e, document_id, chatbot_id) ==
  [ op |-> "add_document", outcome |-> "ok", engine |-> e,
    chatbot_id |-> chatbot_id, document_id |-> document_id ]

AddDocument(e, file_path, document_id, chatbot_id) ==
  LET extracted == extract_text_from_file(file_path)
      chunks == chunk_text(extracted.text, DefaultChunkSize, DefaultOverlap)
      chunk_embeddings == ChunkEmbeddings(chunks)
      got == get_or_create_index(indexFile, chatbot_id)
      index == IndexAdd(got.index, EmbeddingsArray(chunk_embeddings))
      table == MetadataSet(metadata[e],
                 DocumentRecord(document_id, file_path, chunks, index, chatbot_id))
  IN
  \/ /\ chatbot_id = None
     /\ last' = AddRaised(e, chatbot_id, "ValueError")
     /\ UNCHANGED <<indexFile, metaFile, metadata>>
  \/ /\ chatbot_id # None
     /\ extracted.raised
     /\ last' = AddRaised(e, chatbot_id, "ValueError")
     /\ UNCHANGED <<indexFile, metaFile, metadata>>
  \/ /\ chatbot_id # None
     /\ ~extracted.raised
     /\ chunks # <<>>
     /\ last' = AddRaised(e, chatbot_id, "ProviderError")
     /\ UNCHANGED <<indexFile, metaFile, metadata>>
  \/ /\ chatbot_id # None
     /\ ~extracted.raised
     /\ chunks = <<>>
     /\ indexFile' = got.files
     /\ last' = AddRaised(e, chatbot_id, "ValueError")
     /\ UNCHANGED <<metaFile, metadata>>
  \/ /\ chatbot_id # None
     /\ ~extracted.raised
     /\ chunks # <<>>
     /\ index.ntotal <= MaxVectors
     /\ metadata' = [metadata EXCEPT ![e] = table]
     /\ indexFile' = [got.files EXCEPT ![chatbot_id] = WriteIndexFile(index)]
     /\ metaFile' = save_metadata(table)
     /\ last' = AddReturned(e, document_id, chatbot_id)

(***************************************************************************)
(* search, a whole call: the loop over zip(D[0], I[0]) and, inside it, the *)
(* scan of self.metadata.items() in dict order.                            *)
(***************************************************************************)
\* faulty variant: no lower bound on the position
InRange_NoLowerBound(meta, idx) ==
  idx < meta.start_idx + meta.num_vectors
\* line 186
InRange(meta, idx) ==
  meta.start_idx <= idx /\ idx < meta.start_idx + meta.num_vectors
\* faulty variant: the scan does not skip the entries of other chatbots
Hits_AnyChatbot(table, chatbot_id, document_ids, idx) ==
  { i \in DOMAIN table :
      /\ InRange(table[i], idx)
      /\ (document_ids.is_none \/ table[i].doc_id \in document_ids.ids) }
\* faulty variant: the scan does not look at document_ids
Hits_NoFilter(table, chatbot_id, document_ids, idx) ==
  { i \in DOMAIN table :
      /\ table[i].chatbot_id = chatbot_id
      /\ InRange(table[i], idx) }
\* lines 183-189: the places of the table whose entry the scan stops at
Hits(table, chatbot_id, document_ids, idx) ==
  { i \in DOMAIN table :
      /\ table[i].chatbot_id = chatbot_id
      /\ InRange(table[i], idx)
      /\ (document_ids.is_none \/ table[i].doc_id \in document_ids.ids) }
\* faulty variant: the position itself taken as the chunk index
ChunkIdx_NoOffset(meta, idx) == idx
\* line 191
ChunkIdx(meta, idx) == idx - meta.start_idx
\* a Python list index: 0-based, a negative one counts from the end
PyInBounds(list, i) == -Len(list) <= i /\ i < Len(list)
PyGet(list, i) == IF i >= 0 THEN list[i + 1] ELSE list[Len(list) + i + 1]
\* lines 192-197
SearchResult(meta, score, idx) ==
  [ document_id |-> meta.doc_id,
    chunk       |-> PyGet(meta.chunks, ChunkIdx(meta, idx)),
    score       |-> score,
    file_path   |-> meta.file_path ]
\* faulty variant: every result is put in front of the earlier ones
RECURSIVE SearchLoop_Prepend(_, _, _, _, _, _, _)
SearchLoop_Prepend(table, D, I, chatbot_id, document_ids, j, results) ==
  IF j > Len(I)
    THEN [raised |-> FALSE, results |-> results]
    ELSE LET hits == Hits(table, chatbot_id, document_ids, I[j])
         IN  IF hits = {}
               THEN SearchLoop_Prepend(table, D, I, chatbot_id, document_ids, j + 1, results)
               ELSE LET meta == table[Min(hits)]
                    IN  IF ~PyInBounds(meta.chunks, ChunkIdx(meta, I[j]))
                          THEN [raised |-> TRUE, results |-> results]
                          ELSE SearchLoop_Prepend(table, D, I, chatbot_id, document_ids, j + 1,
                                 <<SearchResult(meta, D[j], I[j])>> \o results)
RECURSIVE SearchLoop(_, _, _, _, _, _, _)
SearchLoop(table, D, I, chatbot_id, document_ids, j, results) ==
  IF j > Len(I)
    THEN [raised |-> FALSE, results |-> results]
    ELSE LET hits == Hits(table, chatbot_id, document_ids, I[j])
         IN  IF hits = {}
               THEN SearchLoop(table, D, I, chatbot_id, document_ids, j + 1, results)
               ELSE LET meta == table[Min(hits)]
                    IN  IF ~PyInBounds(meta.chunks, ChunkIdx(meta, I[j]))
                          THEN [raised |-> TRUE, results |-> results]
                          ELSE SearchLoop(table, D, I, chatbot_id, document_ids, j + 1,
                                          Append(results, SearchResult(meta, D[j], I[j])))

SearchRaised(e, chatbot_id, error) ==
  [op |-> "search", outcome |-> error, engine |-> e, chatbot_id |-> chatbot_id]

Search(e, query, k, document_ids, chatbot_id) ==
  LET query_embedding == Embed(query)
      got == get_or_create_index(indexFile, chatbot_id)
  IN
  \/ /\ chatbot_id = None
     /\ last' = SearchRaised(e, chatbot_id, "ValueError")
     /\ UNCHANGED <<indexFile, metaFile, metadata>>
  \/ /\ chatbot_id # None
     /\ last' = SearchRaised(e, chatbot_id, "ProviderError")
     /\ UNCHANGED <<indexFile, metaFile, metadata>>
  \/ /\ chatbot_id # None
     /\ \E found \in IndexSearch(got.index, AsFloat32(query_embedding), k) :
          LET loop == SearchLoop(metadata[e], found.D, found.I, chatbot_id,
                                 document_ids, 1, <<>>)
          IN  last' = [ op |-> "search",
                        outcome |-> IF loop.raised THEN "IndexError" ELSE "ok",
                        engine |-> e, chatbot_id |-> chatbot_id, k |-> k,
                        document_ids |-> document_ids,
                        D |-> found.D, I |-> found.I,
                        results |-> IF loop.raised THEN <<>> ELSE loop.results ]
     /\ indexFile' = got.files
     /\ UNCHANGED <<metaFile, metadata>>

(***************************************************************************)
(* Sequential use of one engine: every call runs to its end    before the     *)
(* next one starts.                                                        *)
(***************************************************************************)
Ingest ==
  /\ last = NoCall
  /\ \E file_path \in FilePaths, document_id \in DocIds, chatbot_id \in Chatbots \cup {None} :
       AddDocument(MainEngine, file_path, document_id, chatbot_id)
  /\ UNCHANGED <<running, now, documents>>
Retrieve ==
  /\ last = NoCall
  /\ \E query \in Queries, k \in Ks, document_ids \in Filters,
        chatbot_id \in Chatbots \cup {None} :
       Search(MainEngine, query, k, document_ids, chatbot_id)
  /\ UNCHANGED <<running, now, documents>>
\* the caller takes what the call returned or raised
Return ==
  /\ last # NoCall
  /\ last' = NoCall
  /\ UNCHANGED <<indexFile, metaFile, metadata, running, now, documents>>
Next == Ingest \/ Retrieve \/ Return
Spec == Init /\ [][Next]_vars

(***************************************************************************)
(* add_document statement by statement, for calls that overlap in time on  *)
(* one engine (the code takes no lock): every thread makes one call.  A    *)
(* step holds one access to the shared state: the index file,              *)
(* self.metadata or metadata.json.                                         *)
(***************************************************************************)
Raised(chatbot_id, error) ==
  [pc |-> "done", outcome |-> error, chatbot_id |-> chatbot_id]
\* lines 114-136: the checks, extraction, chunking, embedding,
\* get_or_create_index and index.add on the loaded index
AddBegin(p, e, file_path, document_id, chatbot_id) ==
  LET extracted == extract_text_from_file(file_path)
      chunks == chunk_text(extracted.text, DefaultChunkSize, DefaultOverlap)
      chunk_embeddings == ChunkEmbeddings(chunks)
      got == get_or_create_index(indexFile, chatbot_id)
      index == IndexAdd(got.index, EmbeddingsArray(chunk_embeddings))
  IN
  /\ running[p].pc = "idle"
  /\ \/ /\ chatbot_id = None
        /\ running' = [running EXCEPT ![p] = Raised(chatbot_id, "ValueError")]
        /\ UNCHANGED indexFile
     \/ /\ chatbot_id # None
        /\ extracted.raised
        /\ running' = [running EXCEPT ![p] = Raised(chatbot_id, "ValueError")]
        /\ UNCHANGED indexFile
     \/ /\ chatbot_id # None
        /\ ~extracted.raised
        /\ chunks # <<>>
        /\ running' = [running EXCEPT ![p] = Raised(chatbot_id, "ProviderError")]
        /\ UNCHANGED indexFile
     \/ /\ chatbot_id # None
        /\ ~extracted.raised
        /\ chunks = <<>>
        /\ indexFile' = got.files
        /\ running' = [running EXCEPT ![p] = Raised(chatbot_id, "ValueError")]
     \/ /\ chatbot_id # None
        /\ ~extracted.raised
        /\ chunks # <<>>
        /\ index.ntotal <= MaxVectors
        /\ indexFile' = got.files
        /\ running' = [running EXCEPT ![p] =
                      [ pc |-> "record", engine |-> e, chatbot_id |-> chatbot_id,
                        document_id |-> document_id, file_path |-> file_path,
                        chunks |-> chunks, index |-> index ]]
  /\ UNCHANGED <<metaFile, metadata, last, now, documents>>
\* lines 139-146
AddRecord(p) ==
  /\ running[p].pc = "record"
  /\ metadata' = [metadata EXCEPT ![running[p].engine] =
                    MetadataSet(@, DocumentRecord(running[p].document_id, running[p].file_path,
                                                  running[p].chunks, running[p].index,
                                                  running[p].chatbot_id))]
  /\ running' = [running EXCEPT ![p].pc = "write_index"]
  /\ UNCHANGED <<indexFile, metaFile, last, now, documents>>
\* line 149
AddWriteIndex(p) ==
  /\ running[p].pc = "write_index"
  /\ indexFile' = [indexFile EXCEPT ![running[p].chatbot_id] = WriteIndexFile(running[p].index)]
  /\ running' = [running EXCEPT ![p].pc = "save_metadata"]
  /\ UNCHANGED <<metaFile, metadata, last, now, documents>>
\* line 150, and the return of line 163 (db is None)
AddSaveMetadata(p) ==
  /\ running[p].pc = "save_metadata"
  /\ metaFile' = save_metadata(metadata[running[p].engine])
  /\ running' = [running EXCEPT ![p] =
                [ pc |-> "done", outcome |-> "ok", chatbot_id |-> running[p].chatbot_id,
                  document_id |-> running[p].document_id,
                  num_vectors |-> Len(running[p].chunks),
                  start_idx |-> running[p].index.ntotal - Len(running[p].chunks) ]]
  /\ UNCHANGED <<indexFile, metadata, last, now, documents>>

ConcBegin ==
  /\ last = NoCall
  /\ \E p \in Procs, file_path \in FilePaths, document_id \in DocIds,
        chatbot_id \in ConcChatbots \cup {None} :
       AddBegin(p, MainEngine, file_path, document_id, chatbot_id)
ConcRecord == last = NoCall /\ \E p \in Procs : AddRecord(p)
ConcWriteIndex == last = NoCall /\ \E p \in Procs : AddWriteIndex(p)
ConcSaveMetadata == last = NoCall /\ \E p \in Procs : AddSaveMetadata(p)
ConcRetrieve ==
  /\ last = NoCall
  /\ \E query \in Queries, k \in Ks, document_ids \in Filters,
        chatbot_id \in ConcChatbots \cup {None} :
       Search(MainEngine, query, k, document_ids, chatbot_id)
  /\ UNCHANGED <<running, now, documents>>
NextConc ==
  ConcBegin \/ ConcRecord \/ ConcWriteIndex \/ ConcSaveMetadata \/ ConcRetrieve \/ Return
SpecConc == Init /\ [][NextConc]_vars

(***************************************************************************)
(* Vocabulary of the properties.                                           *)
(***************************************************************************)
\* the entry of a key of a table
RecordOf(table, doc_id) == table[CHOOSE i \in DOMAIN table : table[i].doc_id = doc_id]
\* the entries of a chatbot
RecordsOf(table, c) == {r \in Range(table) : r.chatbot_id = c}
\* the positions [start_idx, start_idx + num_vectors) of an entry
Positions(r) == r.start_idx .. (r.start_idx + r.num_vectors - 1)
RECURSIVE SumVectors(_)
SumVectors(S) ==
  IF S = {} THEN 0
  ELSE LET r == CHOOSE x \in S : TRUE IN r.num_vectors + SumVectors(S \ {r})
\* the chunks the chunker makes of a file
ChunksOfFile(file_path) ==
  chunk_text(extract_text_from_file(file_path).text, DefaultChunkSize, DefaultOverlap)
AddOk(call) == call.op = "add_document" /\ call.outcome = "ok"
\* a search that got past its argument check and the query embedding
Searched(call) == call.op = "search" /\ call.outcome \in {"ok", "IndexError"}
SearchOk(call) == call.op = "search" /\ call.outcome = "ok"
StrictlyIncreasing(f) == \A i, j \in DOMAIN f : i < j => f[i] < f[j]

(***************************************************************************)
(* C1: a successful add_document for chatbot c whose file makes n chunks   *)
(* raises the vector count of c's persisted index by exactly n, and the    *)
(* start_idx it records is the count before the call.                      *)
(***************************************************************************)
C1_AddAdvancesIndex ==
  [][ AddOk(last') =>
        LET c == last'.chatbot_id
            r == RecordOf(metadata'[last'.engine], last'.document_id)
            n == Len(ChunksOfFile(r.file_path))
        IN  /\ last'.document_id \in Keys(metadata'[last'.engine])
            /\ r.chatbot_id = c
            /\ r.num_vectors = n
            /\ Total(indexFile', c) = Total(indexFile, c) + n
            /\ r.start_idx = Total(indexFile, c) ]_vars
\* the second document of a chatbot starts where the first, of two chunks, ends
C1_Witness ==
  /\ AddOk(last)
  /\ last.document_id \in Keys(metadata[last.engine])
  /\ RecordOf(metadata[last.engine], last.document_id).start_idx = 2
  /\ \E r \in RecordsOf(metadata[last.engine], last.chatbot_id) :
       r.start_idx = 0 /\ r.num_vectors = 2

(***************************************************************************)
(* C2: under sequential ingestion on one engine, the position ranges of    *)
(* any two distinct document records of one chatbot are disjoint.          *)
(***************************************************************************)
C2_RangesDisjoint ==
  \A t \in {metadata[MainEngine], load_metadata(metaFile)} :
    \A i, j \in DOMAIN t :
      (i # j /\ t[i].chatbot_id = t[j].chatbot_id) =>
        Positions(t[i]) \cap Positions(t[j]) = {}
C2_Witness ==
  \E i, j \in DOMAIN metadata[MainEngine] :
    /\ i # j
    /\ metadata[MainEngine][i].chatbot_id = metadata[MainEngine][j].chatbot_id
    /\ metadata[MainEngine][j].num_vectors = 2

(***************************************************************************)
(* C3: under sequential ingestion, for every chatbot the ranges of its     *)
(* records cover [0, total) without a gap and the total vector count is    *)
(* the sum of num_vectors over its records.                                *)
(***************************************************************************)
C3_RangesDense ==
  \A c \in Chatbots :
    LET records == RecordsOf(metadata[MainEngine], c)
    IN  /\ UNION {Positions(r) : r \in records} = 0 .. (Total(indexFile, c) - 1)
        /\ Total(indexFile, c) = SumVectors(records)

(***************************************************************************)
(* C4: every document record has as many vectors as chunks, and the row at *)
(* position start_idx + i of its chatbot's index is the (single-precision) *)
(* embedding of its chunk i.                                               *)
(***************************************************************************)
C4_ChunkOrderKept ==
  \A t \in {metadata[MainEngine], load_metadata(metaFile)} :
    \A r \in Range(t) :
      /\ r.num_vectors = Len(r.chunks)
      /\ indexFile[r.chatbot_id].exists
      /\ r.start_idx >= 0
      /\ r.start_idx + r.num_vectors <= indexFile[r.chatbot_id].ntotal
      /\ indexFile[r.chatbot_id].ntotal = Len(indexFile[r.chatbot_id].xb)
      /\ \A i \in 0 .. (r.num_vectors - 1) :
           indexFile[r.chatbot_id].xb[r.start_idx + i + 1]
             = AsFloat32(Embed(PyGet(r.chunks, i)))
\* a record of two chunks that is not the first of its index
C4_Witness ==
  \E r \in Range(metadata[MainEngine]) : r.num_vectors = 2 /\ r.start_idx = 1

(***************************************************************************)
(* C6: search returns at most k results, at most one per place of the      *)
(* index's answer, in the order of that answer, so by non-decreasing       *)
(* distance.                                                               *)
(***************************************************************************)
\* the maps that give every result its own place of the answer (D, I), in order
Places(call) ==
  { f \in [1..Len(call.results) -> 1..Len(call.I)] :
      /\ StrictlyIncreasing(f)
      /\ \A i \in 1..Len(call.results) :
           /\ call.results[i].score = call.D[f[i]]
           /\ \E r \in Range(metadata[call.engine]) :
                /\ r.doc_id = call.results[i].document_id
                /\ InRange(r, call.I[f[i]]) }
C6_AtMostKInOrder ==
  SearchOk(last) =>
    /\ Len(last.I) = last.k
    /\ Len(last.results) <= last.k
    /\ Places(last) # {}
    /\ \A i, j \in 1..Len(last.results) :
         i < j => last.results[i].score <= last.results[j].score
\* k = 2 results, at two different distances, of an index of three vectors
C6_Witness ==
  /\ SearchOk(last)
  /\ last.k = 2
  /\ Total(indexFile, last.chatbot_id) = 3
  /\ Len(last.results) = 2
  /\ last.results[1].score < last.results[2].score

(***************************************************************************)
(* C7: every result of a search for chatbot c names a document whose       *)
(* record belongs to c and a chunk of that record, also when another       *)
(* chatbot holds documents at the same positions.                          *)
(***************************************************************************)
C7_TenantIsolation ==
  SearchOk(last) =>
    \A i \in 1..Len(last.results) :
      \E r \in Range(metadata[last.engine]) :
        /\ r.doc_id = last.results[i].document_id
        /\ r.chatbot_id = last.chatbot_id
        /\ last.results[i].chunk \in Range(r.chunks)
        /\ last.results[i].file_path = r.file_path
\* a hit at position 0 while another chatbot has a document at position 0
C7_Witness ==
  /\ SearchOk(last)
  /\ last.results # <<>>
  /\ \E r \in Range(metadata[last.engine]) :
       r.chatbot_id # last.chatbot_id /\ r.start_idx = 0
  /\ \E j \in 1..Len(last.I) : last.I[j] = 0

(***************************************************************************)
(* C8: the results are, in the order of the answer, one per position that  *)
(* lies in the range of a record of the chatbot (and whose document the    *)
(* document_ids filter admits): that record's document, the chunk at       *)
(* offset position - start_idx and its file_path.  A position in no record *)
(* gives no result, and scanning the table in any other order gives the    *)
(* same results.                                                           *)
(***************************************************************************)
\* the records of the chatbot that contain a position
Containing(call, p) == {r \in RecordsOf(metadata[call.engine], call.chatbot_id) : InRange(r, p)}
Admitted(call, r) == call.document_ids.is_none \/ r.doc_id \in call.document_ids.ids
\* the places of the answer that resolve
Resolving(call) ==
  {j \in 1..Len(call.I) : \E r \in Containing(call, call.I[j]) : Admitted(call, r)}
ScanOrders(table) ==
  { [i \in DOMAIN table |-> table[f[i]]] :
      f \in {g \in [DOMAIN table -> DOMAIN table] : \A i, j \in DOMAIN table : i # j => g[i] # g[j]} }
C8_ResolvesPositions ==
  Searched(last) =>
    /\ last.outcome = "ok"
    /\ \A j \in 1..Len(last.I) : Cardinality(Containing(last, last.I[j])) <= 1
    /\ \E f \in [1..Len(last.results) -> 1..Len(last.I)] :
         /\ StrictlyIncreasing(f)
         /\ {f[i] : i \in 1..Len(last.results)} = Resolving(last)
         /\ \A i \in 1..Len(last.results) :
              \E r \in Containing(last, last.I[f[i]]) :
                last.results[i] =
                  [ document_id |-> r.doc_id,
                    chunk       |-> r.chunks[last.I[f[i]] - r.start_idx + 1],
                    score       |-> last.D[f[i]],
                    file_path   |-> r.file_path ]
    /\ \A t \in ScanOrders(metadata[last.engine]) :
         SearchLoop(t, last.D, last.I, last.chatbot_id, last.document_ids, 1, <<>>)
           = [raised |-> FALSE, results |-> last.results]
\* the second chunk of a document that starts at position 1, found while a
\* position of the answer resolves to nothing
C8_Witness ==
  /\ SearchOk(last)
  /\ \E i \in 1..Len(last.results) :
       \E r \in Range(metadata[last.engine]) :
         /\ r.doc_id = last.results[i].document_id
         /\ r.start_idx = 1
         /\ r.num_vectors = 2
         /\ last.results[i].chunk = r.chunks[2]
  /\ Cardinality(Resolving(last)) < Len(last.I)
  /\ Len(metadata[last.engine]) = 2

(***************************************************************************)
(* C10: a search of a chatbot whose index holds n vectors, n = 0 and no    *)
(* index file included, does not raise, returns at most min(k, n) results, *)
(* none of them for a position outside [0, n), and none at all for n = 0.  *)
(***************************************************************************)
C10_SentinelsAreNoMatch ==
  Searched(last) =>
    LET n == Total(indexFile, last.chatbot_id)
    IN  /\ last.outcome = "ok"
        /\ indexFile[last.chatbot_id].exists
        /\ Len(last.results) <= n
        /\ Len(last.results) <= last.k
        /\ Len(last.results) <= Cardinality({j \in 1..Len(last.I) : last.I[j] \in 0..(n - 1)})
        /\ \E f \in Places(last) :
             \A i \in 1..Len(last.results) : last.I[f[i]] \in 0 .. (n - 1)
        /\ (n = 0 => last.results = <<>>)
\* an answer with sentinels, for an index with vectors and for an empty one
C10_Witness ==
  /\ SearchOk(last)
  /\ Total(indexFile, last.chatbot_id) = 1
  /\ last.k = DefaultK
  /\ last.I = <<0, -1, -1, -1, -1>>
  /\ Len(last.results) = 1
  /\ metadata[last.engine] # <<>>

(***************************************************************************)
(* C5: when two add_document calls for one chatbot overlap in time, each   *)
(* reads the index size, appends and records without an append of the      *)
(* other in between: once both have returned, their two documents have     *)
(* disjoint ranges and the persisted index holds the earlier total plus    *)
(* the vectors of both.                                                    *)
(***************************************************************************)
Finished(p) == running[p].pc = "done" /\ running[p].outcome = "ok"
C5_IngestionSerialized ==
  \A p, q \in Procs :
    ( /\ p # q
      /\ Finished(p)
      /\ Finished(q)
      /\ running[p].chatbot_id = running[q].chatbot_id
      /\ running[p].document_id # running[q].document_id ) =>
      /\ Positions(running[p]) \cap Positions(running[q]) = {}
      /\ Total(indexFile, running[p].chatbot_id)
           = Min({running[p].start_idx, running[q].start_idx})
               + running[p].num_vectors + running[q].num_vectors

(***************************************************************************)
(* C9: a search given a document_ids filter returns only documents of the  *)
(* filter, also in states where the ranges of two documents overlap.       *)
(***************************************************************************)
C9_FilterRespected ==
  (SearchOk(last) /\ ~last.document_ids.is_none) =>
    \A i \in 1..Len(last.results) : last.results[i].document_id \in last.document_ids.ids
\* a hit of d1 at a position that d2, scanned first and outside the filter, holds too
C9_Witness ==
  /\ SearchOk(last)
  /\ last.document_ids = Filter({"d1"})
  /\ last.results # <<>>
  /\ Len(metadata[last.engine]) = 2
  /\ metadata[last.engine][1].doc_id = "d2"
  /\ metadata[last.engine][1].chatbot_id = last.chatbot_id
  /\ metadata[last.engine][2].chatbot_id = last.chatbot_id
  /\ \E j \in 1..Len(last.I) :
       InRange(metadata[last.engine][1], last.I[j]) /\ InRange(metadata[last.engine][2], last.I[j])

(***************************************************************************)
(* C11: over completed add_document and search calls a chatbot's persisted *)
(* index only grows at its end: an index file stays, its vector count does *)
(* not go down, the row at a position it already had does not change, and  *)
(* the start_idx a successful add_document records is above every position *)
(* the index had before the call, also when the call overwrites a record.  *)
(***************************************************************************)
C11_AppendOnly ==
  [][ /\ \A c \in Chatbots :
           /\ indexFile[c].exists => indexFile'[c].exists
           /\ Total(indexFile', c) >= Total(indexFile, c)
           /\ \A p \in 0 .. (Total(indexFile, c) - 1) :
                indexFile'[c].xb[p + 1] = indexFile[c].xb[p + 1]
      /\ AddOk(last') =>
           \A p \in 0 .. (Total(indexFile, last'.chatbot_id) - 1) :
             RecordOf(metadata'[last'.engine], last'.document_id).start_idx > p ]_vars
\* a record overwritten by a document of two chunks, behind the row of the
\* earlier ingestion
C11_Witness ==
  /\ AddOk(last)
  /\ Total(indexFile, last.chatbot_id) = 3
  /\ RecordsOf(metadata[last.engine], last.chatbot_id)
       = {RecordOf(metadata[last.engine], last.document_id)}
  /\ RecordOf(metadata[last.engine], last.document_id).start_idx = 1
  /\ indexFile[last.chatbot_id].xb[1] = AsFloat32(Embed(<<1, 0>>))

(***************************************************************************)
(* chunk_text iteration by iteration, for any text, chunk_size and         *)
(* overlap: running[p] holds the locals of the call.  A call that has made *)
(* more iterations than its text has characters is followed no further.    *)
(***************************************************************************)
\* the longest text and the largest chunk_size a chunk_text call is given
MaxTextLen == 6
MaxChunkSize == 4
\* the texts, every character its own
Texts == {[i \in 1..n |-> i] : n \in 0..MaxTextLen}
ChunkSizes == 1..MaxChunkSize
\* the overlaps: below chunk_size, equal to it and above it
Overlaps == 0..(MaxChunkSize + 1)
\* the thread that makes the call
ChunkProc == "p1"
\* the call chunk_text(text, chunk_size, overlap) at line 99, nothing done yet
ChunkTextCall(text, chunk_size, overlap) ==
  [ pc |-> "chunk_loop", text |-> text, chunk_size |-> chunk_size,
    overlap |-> overlap, start |-> 0, chunks |-> <<>> ]
InitChunk ==
  /\ indexFile = [c \in Chatbots |-> NoFile]
  /\ metaFile = [exists |-> FALSE]
  /\ metadata = [e \in Engines |-> load_metadata([exists |-> FALSE])]
  /\ last = NoCall
  /\ \E text \in Texts, chunk_size \in ChunkSizes, overlap \in Overlaps :
       running = [p \in Procs |-> IF p = ChunkProc
                                    THEN ChunkTextCall(text, chunk_size, overlap)
                                    ELSE Idle]
  /\ now = 0
  /\ documents = <<>>
\* lines 99-108: one iteration of the while loop
ChunkIterate(p) ==
  /\ running[p].pc = "chunk_loop"
  /\ running[p].start < Len(running[p].text)
  /\ Len(running[p].chunks) <= Len(running[p].text)
  /\ LET text == running[p].text
         end == WindowEnd(running[p].start, running[p].chunk_size, Len(text))
         chunk == PySlice(text, running[p].start, end)
     IN  running' = [running EXCEPT
                       ![p].chunks = Append(@, chunk),
                       ![p].start = NextStart(Len(text), end, running[p].overlap)]
  /\ UNCHANGED <<indexFile, metaFile, metadata, last, now, documents>>
\* lines 99 and 110: the loop condition fails and the chunks are returned
ChunkReturn(p) ==
  /\ running[p].pc = "chunk_loop"
  /\ ~(running[p].start < Len(running[p].text))
  /\ running' = [running EXCEPT ![p].pc = "chunk_done"]
  /\ UNCHANGED <<indexFile, metaFile, metadata, last, now, documents>>
ChunkStep == \E p \in Procs : ChunkIterate(p)
ChunkEnd == \E p \in Procs : ChunkReturn(p)
NextChunk == ChunkStep \/ ChunkEnd
SpecChunk == InitChunk /\ [][NextChunk]_vars
\* the interpreter runs a call that can take a step
SpecChunkFair == SpecChunk /\ WF_vars(NextChunk)


\* a chunk_text call that has returned, and one given an overlap below chunk_size
ChunkDone(p) == running[p].pc = "chunk_done"
ChunkLooping(p) == running[p].pc = "chunk_loop"
ValidOverlap(p) == running[p].overlap < running[p].chunk_size
\* the first chunk followed by every later chunk without its first overlap characters
RECURSIVE Rebuilt(_, _, _)
Rebuilt(chunks, overlap, j) ==
  IF j > Len(chunks) THEN <<>>
  ELSE (IF j = 1 THEN chunks[1] ELSE SubSeq(chunks[j], overlap + 1, Len(chunks[j])))
         \o Rebuilt(chunks, overlap, j + 1)
\* the least integer not below a / b, for b > 0
Ceil(a, b) == (a + b - 1) \div b

(***************************************************************************)
(* C12: with 0 <= overlap < chunk_size, chunk_text of a text of n          *)
(* characters returns, in order, the windows                               *)
(* text[j*(chunk_size-overlap) : min(j*(chunk_size-overlap)+chunk_size,n)] *)
(* that start inside the text, up to the first that ends at n: a window    *)
(* starts at the end of the one before minus overlap, every chunk but the  *)
(* last has chunk_size characters, the last ends at n, and the first chunk *)
(* followed by the later ones without their first overlap characters is    *)
(* the text.                                                               *)
(***************************************************************************)
C12_WindowsOfText ==
  \A p \in Procs :
    (ChunkDone(p) /\ ValidOverlap(p)) =>
      LET text == running[p].text
          n == Len(text)
          c == running[p].chunk_size
          o == running[p].overlap
          chunks == running[p].chunks
          m == Len(chunks)
          from(j) == (j - 1) * (c - o)
          to(j) == IF from(j) + c < n THEN from(j) + c ELSE n
      IN  /\ \A j \in 1..m : from(j) < n /\ chunks[j] = SubSeq(text, from(j) + 1, to(j))
          /\ \A j \in 2..m : from(j) = to(j - 1) - o
          /\ \A j \in 1..(m - 1) : Len(chunks[j]) = c /\ to(j) < n
          /\ m > 0 => to(m) = n
          /\ (n > 0) => (m > 0)
          /\ Rebuilt(chunks, o, 1) = text
\* three windows with an overlap, the last one short
C12_Witness ==
  /\ ChunkDone(ChunkProc)
  /\ running[ChunkProc].overlap = 1
  /\ running[ChunkProc].chunk_size = 3
  /\ running[ChunkProc].chunks = << <<1, 2, 3>>, <<3, 4, 5>>, <<5, 6>> >>

(***************************************************************************)
(* C13 as stated: with overlap o < chunk_size c, the number of chunks of a *)
(* text of n characters is ceil((n - o) / (c - o)) when n > c, and 1       *)
(* otherwise.                                                              *)
(***************************************************************************)
C13_ChunkCount ==
  \A p \in Procs :
    (ChunkDone(p) /\ ValidOverlap(p)) =>
      LET n == Len(running[p].text)
          c == running[p].chunk_size
          o == running[p].overlap
      IN  Len(running[p].chunks) = IF n > c THEN Ceil(n - o, c - o) ELSE 1
(***************************************************************************)
(* C13 amended: the number of chunks is ceil((n - o) / (c - o)) when       *)
(* n > c, 1 when 0 < n <= c, and 0 for the empty text.                     *)
(***************************************************************************)
C13_ChunkCount_NonEmpty ==
  \A p \in Procs :
    (ChunkDone(p) /\ ValidOverlap(p)) =>
      LET n == Len(running[p].text)
          c == running[p].chunk_size
          o == running[p].overlap
      IN  Len(running[p].chunks) =
            IF n > c THEN Ceil(n - o, c - o) ELSE IF n > 0 THEN 1 ELSE 0
\* a count the division rounds up: ceil((6 - 1) / (3 - 1)) = 3
C13_Witness ==
  /\ ChunkDone(ChunkProc)
  /\ Len(running[ChunkProc].text) = 6
  /\ running[ChunkProc].chunk_size = 3
  /\ running[ChunkProc].overlap = 1
  /\ Len(running[ChunkProc].chunks) = 3
\* the empty text makes no chunk
C13_EmptyText ==
  /\ ChunkDone(ChunkProc)
  /\ ValidOverlap(ChunkProc)
  /\ running[ChunkProc].text = <<>>
  /\ running[ChunkProc].chunks = <<>>

(***************************************************************************)
(* C14: with 0 <= overlap < chunk_size every chunk_text call returns, with *)
(* at least one chunk when the text is not empty and with none when it is. *)
(***************************************************************************)
C14_Terminates ==
  \A p \in Procs :
    (ChunkLooping(p) /\ ValidOverlap(p))
      ~> ( /\ ChunkDone(p)
           /\ (running[p].text = <<>>) <=> (running[p].chunks = <<>>) )
\* a text shorter than chunk_size with an overlap: one chunk, the whole text
C14_Witness ==
  /\ ChunkDone(ChunkProc)
  /\ Len(running[ChunkProc].text) = 3
  /\ running[ChunkProc].chunk_size = 4
  /\ running[ChunkProc].overlap = 3
  /\ running[ChunkProc].chunks = <<running[ChunkProc].text>>

(***************************************************************************)
(* C15: with overlap >= chunk_size, every iteration of chunk_text's loop   *)
(* leaves the window start above where it was.                             *)
(***************************************************************************)
C15_StartAdvances ==
  [][ \A p \in Procs :
        ( /\ ChunkLooping(p)
          /\ ~ValidOverlap(p)
          /\ running'[p].pc = "chunk_loop"
          /\ running'[p].chunks # running[p].chunks ) =>
          running'[p].start > running[p].start ]_vars


(***************************************************************************)
(* add_document and search statement by statement, one call after the      *)
(* other on one engine, with the wall clock and the calls a statement      *)
(* makes to the file system and the provider (the field io of the call).   *)
(***************************************************************************)
\* the last tick the clock is followed to
MaxClock == 3
\* the clock ticks more than once a second
TicksPerSecond == 2
\* strftime('%Y%m%d_%H%M%S'): the second a tick lies in
Strftime(t) == t \div TicksPerSecond
\* line 119
GeneratedId(t) == "doc_" \o ToString(Strftime(t))

\* faulty variant: the chatbot_id check made after the embedding
AddStages_CheckLate ==
  <<"gen_id", "extract", "chunk", "embed", "check", "get_index", "index_add", "record">>
\* faulty variant: the index fetched before the text is extracted
AddStages_IndexFirst ==
  <<"check", "gen_id", "get_index", "extract", "chunk", "embed", "index_add", "record">>
\* the statements of add_document up to the record, in their order
AddStages ==
  <<"check", "gen_id", "extract", "chunk", "embed", "get_index", "index_add", "record">>
\* the statements of search, in their order
SearchStages == <<"check", "embed", "get_index", "scan">>
\* the statement after a statement
StageAfter(stages, stage) ==
  stages[(CHOOSE i \in 1..Len(stages) : stages[i] = stage) + 1]

\* the input domains of the calls
StepProcs == {"p1"}
StepChatbots == {"1"}
StepDocIds == {"d1"}
StepQueries == {<<0>>}
StepFilters == {NoFilter}

\* the files and tables as a call finds them
Snapshot == [indexFile |-> indexFile, metaFile |-> metaFile, metadata |-> metadata]
\* the frame of a call at its first statement
AddCall(e, file_path, document_id, chatbot_id) ==
  [ op |-> "add_document", pc |-> AddStages[1], engine |-> e,
    file_path |-> file_path, document_id |-> document_id, chatbot_id |-> chatbot_id,
    generated |-> FALSE, text |-> <<>>, chunks |-> <<>>, chunk_embeddings |-> <<>>,
    index |-> EmptyIndex, io |-> <<>>, before |-> Snapshot ]
SearchCall(e, query, k, document_ids, chatbot_id) ==
  [ op |-> "search", pc |-> SearchStages[1], engine |-> e,
    query |-> query, k |-> k, document_ids |-> document_ids, chatbot_id |-> chatbot_id,
    query_embedding |-> 0, index |-> EmptyIndex, io |-> <<>>, before |-> Snapshot ]
\* an exception leaves the call: its frame is gone
Escaped(call, exception) ==
  [ pc |-> "done", op |-> call.op, raised |-> TRUE, outcome |-> exception,
    at |-> call.pc, engine |-> call.engine, chatbot_id |-> call.chatbot_id,
    io |-> call.io, before |-> call.before ]
At(p, op, stage) ==
  running[p].pc = stage /\ running[p].op = op

BeginAdd(p, e, file_path, document_id, chatbot_id) ==
  /\ running[p].pc = "idle"
  /\ running' = [running EXCEPT ![p] = AddCall(e, file_path, document_id, chatbot_id)]
  /\ UNCHANGED <<indexFile, metaFile, metadata, last, now, documents>>
\* lines 114-115
AddCheck(p) ==
  /\ At(p, "add_document", "check")
  /\ running' = [running EXCEPT ![p] =
                   IF @.chatbot_id = None
                     THEN Escaped(@, "ValueError")
                     ELSE [@ EXCEPT !.pc = StageAfter(AddStages, "check")]]
  /\ UNCHANGED <<indexFile, metaFile, metadata, last, now, documents>>
\* lines 118-119
AddGenId(p) ==
  /\ At(p, "add_document", "gen_id")
  /\ running' = [running EXCEPT ![p] =
                   IF @.document_id = None
                     THEN [@ EXCEPT !.document_id = GeneratedId(now), !.generated = TRUE,
                                    !.pc = StageAfter(AddStages, "gen_id")]
                     ELSE [@ EXCEPT !.pc = StageAfter(AddStages, "gen_id")]]
  /\ UNCHANGED <<indexFile, metaFile, metadata, last, now, documents>>
\* line 122
AddExtract(p) ==
  /\ At(p, "add_document", "extract")
  /\ LET extracted == extract_text_from_file(running[p].file_path)
     IN  running' = [running EXCEPT ![p] =
           IF extracted.raised
             THEN Escaped([@ EXCEPT !.io = Append(@, "magic.from_file")], "ValueError")
             ELSE [@ EXCEPT !.io = @ \o <<"magic.from_file", "open">>,
                            !.text = extracted.text,
                            !.pc = StageAfter(AddStages, "extract")]]
  /\ UNCHANGED <<indexFile, metaFile, metadata, last, now, documents>>
\* line 123
AddChunk(p) ==
  /\ At(p, "add_document", "chunk")
  /\ running' = [running EXCEPT ![p] =
                   [@ EXCEPT !.chunks = chunk_text(running[p].text, DefaultChunkSize, DefaultOverlap),
                             !.pc = StageAfter(AddStages, "chunk")]]
  /\ UNCHANGED <<indexFile, metaFile, metadata, last, now, documents>>
\* lines 126-129: one turn of the for loop, whose get_embedding call returns
\* or raises, or the end of the loop
AddEmbed(p) ==
  /\ At(p, "add_document", "embed")
  /\ LET call == running[p]
         i == Len(call.chunk_embeddings) + 1
         called == [call EXCEPT !.io = Append(@, "embeddings.create")]
     IN  \/ /\ i <= Len(call.chunks)
            /\ running' = [running EXCEPT ![p] =
                 [called EXCEPT !.chunk_embeddings = Append(@, Embed(call.chunks[i]))]]
         \/ /\ i <= Len(call.chunks)
            /\ running' = [running EXCEPT ![p] = Escaped(called, "ProviderError")]
         \/ /\ i > Len(call.chunks)
            /\ running' = [running EXCEPT ![p].pc = StageAfter(AddStages, "embed")]
  /\ UNCHANGED <<indexFile, metaFile, metadata, last, now, documents>>
\* the calls get_or_create_index makes
IndexIO(files, chatbot_id) ==
  IF files[chatbot_id].exists
    THEN <<"os.path.exists", "faiss.read_index">>
    ELSE <<"os.path.exists", "faiss.write_index">>
\* line 132
AddGetIndex(p) ==
  /\ At(p, "add_document", "get_index")
  /\ LET got == get_or_create_index(indexFile, running[p].chatbot_id)
     IN  /\ indexFile' = got.files
         /\ running' = [running EXCEPT ![p] =
              [@ EXCEPT !.index = got.index,
                        !.io = @ \o IndexIO(indexFile, running[p].chatbot_id),
                        !.pc = StageAfter(AddStages, "get_index")]]
  /\ UNCHANGED <<metaFile, metadata, last, now, documents>>
\* lines 135-136: index.add raises on the array of no rows
AddIndexAdd(p) ==
  /\ At(p, "add_document", "index_add")
  /\ LET call == running[p]
         index == IndexAdd(call.index, EmbeddingsArray(call.chunk_embeddings))
     IN  \/ /\ call.chunk_embeddings = <<>>
            /\ running' = [running EXCEPT ![p] = Escaped(call, "ValueError")]
         \/ /\ call.chunk_embeddings # <<>>
            /\ index.ntotal <= MaxVectors
            /\ running' = [running EXCEPT ![p] =
                 [call EXCEPT !.index = index,
                              !.pc = StageAfter(AddStages, "index_add")]]
  /\ UNCHANGED <<indexFile, metaFile, metadata, last, now, documents>>

BeginSearch(p, e, query, k, document_ids, chatbot_id) ==
  /\ running[p].pc = "idle"
  /\ running' = [running EXCEPT ![p] = SearchCall(e, query, k, document_ids, chatbot_id)]
  /\ UNCHANGED <<indexFile, metaFile, metadata, last, now, documents>>
\* lines 167-168
SearchCheck(p) ==
  /\ At(p, "search", "check")
  /\ running' = [running EXCEPT ![p] =
                   IF @.chatbot_id = None
                     THEN Escaped(@, "ValueError")
                     ELSE [@ EXCEPT !.pc = StageAfter(SearchStages, "check")]]
  /\ UNCHANGED <<indexFile, metaFile, metadata, last, now, documents>>
\* line 171
SearchEmbed(p) ==
  /\ At(p, "search", "embed")
  /\ LET called == [running[p] EXCEPT !.io = Append(@, "embeddings.create")]
     IN  \/ running' = [running EXCEPT ![p] =
                          [called EXCEPT !.query_embedding = Embed(called.query),
                                         !.pc = StageAfter(SearchStages, "embed")]]
         \/ running' = [running EXCEPT ![p] = Escaped(called, "ProviderError")]
  /\ UNCHANGED <<indexFile, metaFile, metadata, last, now, documents>>
\* line 174
SearchGetIndex(p) ==
  /\ At(p, "search", "get_index")
  /\ LET got == get_or_create_index(indexFile, running[p].chatbot_id)
     IN  /\ indexFile' = got.files
         /\ running' = [running EXCEPT ![p] =
              [@ EXCEPT !.index = got.index,
                        !.io = @ \o IndexIO(indexFile, running[p].chatbot_id),
                        !.pc = StageAfter(SearchStages, "get_index")]]
  /\ UNCHANGED <<metaFile, metadata, last, now, documents>>
\* lines 177-200
SearchScan(p) ==
  /\ At(p, "search", "scan")
  /\ LET call == running[p]
     IN  \E found \in IndexSearch(call.index, AsFloat32(call.query_embedding), call.k) :
           LET loop == SearchLoop(metadata[call.engine], found.D, found.I,
                                  call.chatbot_id, call.document_ids, 1, <<>>)
           IN  running' = [running EXCEPT ![p] =
                 IF loop.raised
                   THEN Escaped(call, "IndexError")
                   ELSE [ pc |-> "done", op |-> "search", raised |-> FALSE,
                          outcome |-> "ok", engine |-> call.engine,
                          chatbot_id |-> call.chatbot_id, io |-> call.io,
                          results |-> loop.results ]]
  /\ UNCHANGED <<indexFile, metaFile, metadata, last, now, documents>>
\* the caller has the return value or the exception and makes its next call
CallReturn(p) ==
  /\ running[p].pc = "done"
  /\ running' = [running EXCEPT ![p] = Idle]
  /\ UNCHANGED <<indexFile, metaFile, metadata, last, now, documents>>
\* the clock
Tick ==
  /\ now < MaxClock
  /\ now' = now + 1
  /\ UNCHANGED <<indexFile, metaFile, metadata, last, running, documents>>

StepBeginAdd ==
  \E p \in StepProcs, file_path \in FilePaths, document_id \in StepDocIds \cup {None},
     chatbot_id \in StepChatbots \cup {None} :
    BeginAdd(p, MainEngine, file_path, document_id, chatbot_id)
StepAddCheck == \E p \in StepProcs : AddCheck(p)
StepAddGenId == \E p \in StepProcs : AddGenId(p)
StepAddExtract == \E p \in StepProcs : AddExtract(p)
StepAddChunk == \E p \in StepProcs : AddChunk(p)
StepAddEmbed == \E p \in StepProcs : AddEmbed(p)
StepAddGetIndex == \E p \in StepProcs : AddGetIndex(p)
StepAddIndexAdd == \E p \in StepProcs : AddIndexAdd(p)
StepAddRecord == \E p \in StepProcs : AddRecord(p)
StepAddWriteIndex == \E p \in StepProcs : AddWriteIndex(p)
StepAddSaveMetadata == \E p \in StepProcs : AddSaveMetadata(p)
StepBeginSearch ==
  \E p \in StepProcs, query \in StepQueries, k \in Ks, document_ids \in StepFilters,
     chatbot_id \in StepChatbots \cup {None} :
    BeginSearch(p, MainEngine, query, k, document_ids, chatbot_id)
StepSearchCheck == \E p \in StepProcs : SearchCheck(p)
StepSearchEmbed == \E p \in StepProcs : SearchEmbed(p)
StepSearchGetIndex == \E p \in StepProcs : SearchGetIndex(p)
StepSearchScan == \E p \in StepProcs : SearchScan(p)
StepReturn == \E p \in StepProcs : CallReturn(p)
NextSteps ==
  \/ StepBeginAdd \/ StepAddCheck \/ StepAddGenId \/ StepAddExtract \/ StepAddChunk
  \/ StepAddEmbed \/ StepAddGetIndex \/ StepAddIndexAdd \/ StepAddRecord
  \/ StepAddWriteIndex \/ StepAddSaveMetadata
  \/ StepBeginSearch \/ StepSearchCheck \/ StepSearchEmbed \/ StepSearchGetIndex
  \/ StepSearchScan \/ StepReturn \/ Tick
SpecSteps == Init /\ [][NextSteps]_vars


\* a call in progress, a call an exception has left, and what a call has
\* left as it found it
InCall(p) == running[p].pc \notin {"idle", "done"}
Failed(p) == running[p].pc = "done" /\ running[p].outcome # "ok"
Untouched(call) ==
  /\ indexFile = call.before.indexFile
  /\ metaFile = call.before.metaFile
  /\ metadata = call.before.metadata

(***************************************************************************)
(* C16: an add_document or search call given no chatbot_id goes no further *)
(* than its check: it ends there with ValueError, having read no file,     *)
(* called no embedding, read or created no index file, and with the        *)
(* metadata table, metadata.json and every index file as it found them.    *)
(***************************************************************************)
C16_RejectedBeforeIO ==
  \A p \in Procs :
    /\ (InCall(p) /\ running[p].chatbot_id = None) =>
         /\ running[p].pc = "check"
         /\ running[p].io = <<>>
         /\ Untouched(running[p])
    /\ (running[p].pc = "done" /\ running[p].chatbot_id = None) =>
         /\ running[p].outcome = "ValueError"
         /\ running[p].at = "check"
         /\ running[p].io = <<>>
         /\ Untouched(running[p])
\* the rejected call is an add_document on an engine that holds a document
C16_Witness ==
  \E p \in Procs :
    /\ Failed(p)
    /\ running[p].chatbot_id = None
    /\ running[p].op = "add_document"
    /\ metadata[running[p].engine] # <<>>
    /\ \E c \in Chatbots : Total(indexFile, c) > 0

(***************************************************************************)
(* C17: an add_document call that fails in the text extraction             *)
(* (unsupported file type) or in the embedding of any of its chunks fails  *)
(* as a whole: up to the failure it has fetched no index, and it leaves    *)
(* every index file (none is created), the metadata table and              *)
(* metadata.json as it found them, so no vector and no record of the       *)
(* document is added; the embeddings it had collected go with its frame.   *)
(***************************************************************************)
C17_NoPartialIngestion ==
  \A p \in Procs :
    /\ (InCall(p) /\ running[p].op = "add_document"
          /\ running[p].pc \in {"extract", "chunk", "embed"}) =>
         /\ running[p].index = EmptyIndex
         /\ Untouched(running[p])
    /\ (Failed(p) /\ running[p].op = "add_document"
          /\ running[p].outcome = "ProviderError") =>
         /\ running[p].at = "embed"
         /\ Untouched(running[p])
    /\ (Failed(p) /\ running[p].op = "add_document"
          /\ running[p].at = "extract") =>
         /\ running[p].outcome = "ValueError"
         /\ Untouched(running[p])
\* the embedding of the second chunk fails, for a chatbot without an index file
C17_Witness ==
  \E p \in Procs :
    /\ Failed(p)
    /\ running[p].op = "add_document"
    /\ running[p].outcome = "ProviderError"
    /\ running[p].io = <<"magic.from_file", "open", "embeddings.create", "embeddings.create">>
    /\ ~indexFile[running[p].chatbot_id].exists
    /\ metadata[running[p].engine] = <<>>

(***************************************************************************)
(* C18: a call that fails (unsupported file, provider failure, missing     *)
(* chatbot_id) returns its failure to the caller: no exception leaves it.  *)
(***************************************************************************)
C18_FailuresAreReturned ==
  \A p \in Procs : Failed(p) => ~running[p].raised

(***************************************************************************)
(* C19: the identifier add_document generates for a call given none is one *)
(* no earlier call has a record under: the call overwrites no record.      *)
(***************************************************************************)
C19_GeneratedIdUnique ==
  [][ \A p \in Procs :
        ( /\ running[p].pc = "record"
          /\ running'[p].pc = "write_index"
          /\ running[p].generated ) =>
          running[p].document_id \notin Keys(metadata[running[p].engine]) ]_vars


\* the positions of a chatbot's persisted index that lie in no record of the chatbot
Stale(table, files, c) ==
  {p \in 0 .. (Total(files, c) - 1) : \A r \in RecordsOf(table, c) : ~InRange(r, p)}

(***************************************************************************)
(* C20: a successful add_document under a document_id that has a record of *)
(* the same chatbot overwrites that record (new chunks, num_vectors, and   *)
(* start_idx = the vector count before the call) and adds no entry; the    *)
(* rows of the earlier range stay in the index, whose count grows by the   *)
(* new chunk count; the positions of the earlier range are from then on in *)
(* no record of the chatbot, and a search returns nothing for a position   *)
(* that is in no record.                                                   *)
(***************************************************************************)
C20_OverwriteLeavesStaleVectors ==
  [][ /\ ( /\ AddOk(last')
           /\ last'.document_id \in Keys(metadata[last'.engine])
           /\ RecordOf(metadata[last'.engine], last'.document_id).chatbot_id
                = last'.chatbot_id ) =>
           LET c == last'.chatbot_id
               old == RecordOf(metadata[last'.engine], last'.document_id)
               new == RecordOf(metadata'[last'.engine], last'.document_id)
           IN  /\ Len(metadata'[last'.engine]) = Len(metadata[last'.engine])
               /\ \A i \in DOMAIN metadata[last'.engine] :
                    metadata[last'.engine][i] # old =>
                      metadata'[last'.engine][i] = metadata[last'.engine][i]
               /\ new.chatbot_id = c
               /\ new.chunks = ChunksOfFile(new.file_path)
               /\ new.num_vectors = Len(new.chunks)
               /\ new.start_idx = Total(indexFile, c)
               /\ Total(indexFile', c) = Total(indexFile, c) + new.num_vectors
               /\ \A p \in Positions(old) :
                    indexFile'[c].xb[p + 1] = indexFile[c].xb[p + 1]
               /\ Positions(old) # {}
               /\ Positions(old) \subseteq Stale(metadata'[last'.engine], indexFile', c)
      /\ \A c \in Chatbots :
           Stale(metadata[MainEngine], indexFile, c)
             \subseteq Stale(metadata'[MainEngine], indexFile', c)
      /\ SearchOk(last') =>
           \E f \in [1..Len(last'.results) -> 1..Len(last'.I)] :
             /\ StrictlyIncreasing(f)
             /\ \A i \in 1..Len(last'.results) :
                  /\ last'.results[i].score = last'.D[f[i]]
                  /\ last'.I[f[i]] >= 0
                  /\ last'.I[f[i]] \notin
                       Stale(metadata'[last'.engine], indexFile', last'.chatbot_id) ]_vars
\* a search whose answer holds the stale position of an overwritten record
\* and the position of the record that replaced it: one result
C20_Witness ==
  /\ SearchOk(last)
  /\ Len(last.I) = 2
  /\ \E j \in 1..2 : last.I[j] \in Stale(metadata[last.engine], indexFile, last.chatbot_id)
  /\ \A j \in 1..2 : last.I[j] >= 0
  /\ Len(last.results) = 1
  /\ Len(metadata[last.engine]) = 1


(***************************************************************************)
(* C21: get_or_create_index for a chatbot with an index file returns the   *)
(* index of exactly the persisted rows and changes no file; for a chatbot  *)
(* with none it writes an empty index file, touches no other file and      *)
(* returns an empty index; a call made right after it finds the files as   *)
(* the first call left them and returns the same index.                    *)
(***************************************************************************)
C21_GetOrCreateIndex ==
  [][ \A p \in Procs :
        (running[p].pc = "get_index" /\ running'[p].pc # "get_index") =>
          LET c == running[p].chatbot_id
              index == running'[p].index
              again == get_or_create_index(indexFile', c)
          IN  /\ indexFile[c].exists =>
                   /\ indexFile' = indexFile
                   /\ index.ntotal = indexFile[c].ntotal
                   /\ index.xb = indexFile[c].xb
              /\ ~indexFile[c].exists =>
                   /\ index = [ntotal |-> 0, xb |-> <<>>]
                   /\ indexFile'[c] = [exists |-> TRUE, ntotal |-> 0, xb |-> <<>>]
                   /\ \A d \in Chatbots \ {c} : indexFile'[d] = indexFile[d]
              /\ again.files = indexFile'
              /\ again.index = index ]_vars
\* a search has fetched the index of a chatbot whose file holds two rows
C21_Witness ==
  \E p \in Procs :
    /\ running[p].pc = "scan"
    /\ running[p].index.ntotal = 2
    /\ running[p].index.xb = indexFile[running[p].chatbot_id].xb
    /\ Total(running[p].before.indexFile, running[p].chatbot_id) = 2


(***************************************************************************)
(* Several FileQA instances over one storage directory, every call whole:  *)
(* an instance loads metadata.json when it is constructed and from then on *)
(* works on its own self.metadata.                                         *)
(***************************************************************************)
\* lines 18-32
Construct(e) ==
  /\ metadata' = [metadata EXCEPT ![e] = load_metadata(metaFile)]
  /\ UNCHANGED <<indexFile, metaFile, last, running, now, documents>>
\* the text files ingested, of one chunk and of two, and the filters asked with
TextFiles == {"a.txt", "b.txt"}
EngineFilters == {NoFilter, Filter({"d1"})}
EngConstruct == last = NoCall /\ \E e \in Engines : Construct(e)
EngIngest ==
  /\ last = NoCall
  /\ \E e \in Engines, file_path \in TextFiles, document_id \in DocIds,
        chatbot_id \in StepChatbots :
       AddDocument(e, file_path, document_id, chatbot_id)
  /\ UNCHANGED <<running, now, documents>>
EngRetrieve ==
  /\ last = NoCall
  /\ \E e \in Engines, query \in StepQueries, k \in Ks, document_ids \in EngineFilters,
        chatbot_id \in StepChatbots :
       Search(e, query, k, document_ids, chatbot_id)
  /\ UNCHANGED <<running, now, documents>>
NextEngines == EngConstruct \/ EngIngest \/ EngRetrieve \/ Return
SpecEngines == Init /\ [][NextEngines]_vars

(***************************************************************************)
(* C22: after a successful add_document, metadata.json read back is the    *)
(* whole self.metadata of the engine that made the call, the new record    *)
(* included, and the chatbot's index file holds the rows of every record   *)
(* of that table, the new ones included; an engine constructed then has    *)
(* that table and index, and its searches return what the first engine's   *)
(* return.                                                                 *)
(***************************************************************************)
C22_PersistedIsInMemory ==
  AddOk(last) =>
    LET e == last.engine
        c == last.chatbot_id
        table == metadata[e]
        fresh == load_metadata(metaFile)
        index == ReadIndexFile(indexFile[c])
    IN  /\ metaFile.exists
        /\ fresh = table
        /\ last.document_id \in Keys(fresh)
        /\ RecordOf(fresh, last.document_id).chatbot_id = c
        /\ indexFile[c].exists
        /\ index.ntotal = Len(index.xb)
        /\ \A r \in RecordsOf(fresh, c) :
             /\ r.start_idx >= 0
             /\ r.start_idx + r.num_vectors <= index.ntotal
        /\ LET r == RecordOf(fresh, last.document_id)
           IN  \A i \in 0 .. (r.num_vectors - 1) :
                 index.xb[r.start_idx + i + 1] = AsFloat32(Embed(PyGet(r.chunks, i)))
        /\ \A query \in StepQueries, k \in Ks, document_ids \in EngineFilters :
             \A found \in IndexSearch(index, AsFloat32(Embed(query)), k) :
               SearchLoop(fresh, found.D, found.I, c, document_ids, 1, <<>>)
                 = SearchLoop(table, found.D, found.I, c, document_ids, 1, <<>>)
\* the second engine has added a second document to the table it loaded
C22_Witness ==
  /\ AddOk(last)
  /\ last.engine = "e2"
  /\ Len(metadata["e2"]) = 2
  /\ load_metadata(metaFile)[2].doc_id = last.document_id
  /\ load_metadata(metaFile)[2].start_idx > 0

(***************************************************************************)
(* C28: a record in metadata.json is still there, as it was, after a       *)
(* successful add_document under another document_id, whichever instance   *)
(* makes the call and for whichever chatbot.                               *)
(***************************************************************************)
C28_NoLostUpdate ==
  [][ AddOk(last') =>
        \A r \in Range(load_metadata(metaFile)) :
          r.doc_id # last'.document_id => r \in Range(load_metadata(metaFile')) ]_vars


(***************************************************************************)
(* add_document statement by statement with interruptions: a file write    *)
(* raises (the record of line 139 is already in self.metadata), or the     *)
(* process dies and a new one constructs its engine from the storage       *)
(* directory.                                                              *)
(***************************************************************************)
\* line 149: faiss.write_index raises and the index file stays as it was
AddWriteIndexFails(p) ==
  /\ running[p].pc = "write_index"
  /\ running' = [running EXCEPT ![p] = Escaped(@, "OSError")]
  /\ UNCHANGED <<indexFile, metaFile, metadata, last, now, documents>>
\* lines 58-60: the open of save_metadata raises and metadata.json stays as it was
AddSaveMetadataFails(p) ==
  /\ running[p].pc = "save_metadata"
  /\ running' = [running EXCEPT ![p] = Escaped(@, "OSError")]
  /\ UNCHANGED <<indexFile, metaFile, metadata, last, now, documents>>
\* the process dies in a call; the next process constructs its engines (lines 18-32)
Restart ==
  /\ \E p \in StepProcs : running[p].pc \notin {"idle", "done"}
  /\ running' = [p \in Procs |-> Idle]
  /\ metadata' = [e \in Engines |-> load_metadata(metaFile)]
  /\ UNCHANGED <<indexFile, metaFile, last, now, documents>>
FaultWriteIndex == \E p \in StepProcs : AddWriteIndexFails(p)
FaultSaveMetadata == \E p \in StepProcs : AddSaveMetadataFails(p)
FaultBeginAdd ==
  \E p \in StepProcs, file_path \in TextFiles, document_id \in DocIds,
     chatbot_id \in StepChatbots :
    BeginAdd(p, MainEngine, file_path, document_id, chatbot_id)
NextFaults ==
  \/ FaultBeginAdd \/ StepAddCheck \/ StepAddGenId \/ StepAddExtract \/ StepAddChunk
  \/ StepAddEmbed \/ StepAddGetIndex \/ StepAddIndexAdd \/ StepAddRecord
  \/ StepAddWriteIndex \/ StepAddSaveMetadata \/ StepReturn
  \/ FaultWriteIndex \/ FaultSaveMetadata \/ Restart
SpecFaults == Init /\ [][NextFaults]_vars

(***************************************************************************)
(* C23: whatever statement an add_document call is interrupted after,      *)
(* every record of metadata.json has its range [start_idx, start_idx +     *)
(* num_vectors) inside [0, vector count of its chatbot's index file).      *)
(***************************************************************************)
C23_IndexNeverBehind ==
  \A r \in Range(load_metadata(metaFile)) :
    /\ r.start_idx >= 0
    /\ r.start_idx + r.num_vectors <= Total(indexFile, r.chatbot_id)

(***************************************************************************)
(* C27: an add_document call that fails after the embedding (in index.add, *)
(* in the index file write or in the metadata file write) leaves           *)
(* self.metadata as it found it.                                           *)
(***************************************************************************)
C27_FailureLeavesNoRecord ==
  \A p \in Procs :
    ( /\ Failed(p)
      /\ running[p].op = "add_document"
      /\ running[p].at \in {"index_add", "write_index", "save_metadata"} ) =>
      metadata[running[p].engine] = running[p].before.metadata[running[p].engine]


(***************************************************************************)
(* C30: a successful add_document for chatbot T leaves the index file of   *)
(* every other chatbot U and every record of self.metadata and             *)
(* metadata.json whose chatbot_id is U as they were, so U's vector count   *)
(* stays the sum of num_vectors of U's records.                            *)
(***************************************************************************)
C30_OtherTenantsUntouched ==
  [][ AddOk(last') =>
        \A u \in Chatbots \ {last'.chatbot_id} :
          /\ indexFile'[u] = indexFile[u]
          /\ RecordsOf(metadata[last'.engine], u)
               \subseteq RecordsOf(metadata'[last'.engine], u)
          /\ RecordsOf(load_metadata(metaFile), u)
               \subseteq RecordsOf(load_metadata(metaFile'), u)
          /\ Total(indexFile, u) = SumVectors(RecordsOf(metadata[last'.engine], u)) =>
               Total(indexFile', u) = SumVectors(RecordsOf(metadata'[last'.engine], u)) ]_vars


(***************************************************************************)
(* query_knowledge_base, a whole call: search (line 205), the fixed answer *)
(* when there is no result (lines 207-208), otherwise the context blocks   *)
(* (lines 211-212), the two messages (lines 215-218) and one call of the   *)
(* generation provider (lines 221-226), whose answer is returned.  The     *)
(* outcome keeps the calls made, in order, with their arguments.           *)
(***************************************************************************)
NoInformation == "No relevant information found in the knowledge base."
\* Instructions.get_knowledge_base_instructions()
KnowledgeBaseInstructions == "knowledge_base_instructions"
\* what the generation provider may answer
Answers == {"answer"}
\* enumerate(search_results): pairs (i, result) with i from 0
Enumerate(list) == [j \in DOMAIN list |-> [i |-> j - 1, result |-> list[j]]]
\* faulty variant: the label is the 0-based position
ContextBlock_ZeroBased(i, result) == [label |-> i, text |-> result.chunk]
\* line 211: f"Context {i+1}:\n{result['chunk']}"
ContextBlock(i, result) == [label |-> i + 1, text |-> result.chunk]
\* lines 211-212: the blocks that "\n\n".join puts one after the other
Context(search_results) ==
  [j \in DOMAIN search_results |->
     ContextBlock(Enumerate(search_results)[j].i, Enumerate(search_results)[j].result)]
\* lines 215-218
Messages(query, context) ==
  << [role |-> "system", content |-> KnowledgeBaseInstructions],
     [role |-> "user", content |-> [question |-> query, context |-> context]] >>
\* line 207: not search_results
NoResults(search_results) == search_results = <<>>
QueryOutcome(e, query, k, document_ids, chatbot_id, outcome, search_results, calls, response) ==
  [ op |-> "query_knowledge_base", outcome |-> outcome, engine |-> e,
    chatbot_id |-> chatbot_id, query |-> query, k |-> k, document_ids |-> document_ids,
    search_results |-> search_results, calls |-> calls, response |-> response ]
SearchCalled == [fn |-> "search"]
GenerationCalled(messages) == [fn |-> "chat.completions.create", messages |-> messages]

QueryKnowledgeBase(e, query, k, document_ids, chatbot_id) ==
  LET query_embedding == Embed(query)
      got == get_or_create_index(indexFile, chatbot_id)
      Out(outcome, search_results, calls, response) ==
        QueryOutcome(e, query, k, document_ids, chatbot_id, outcome, search_results,
                     calls, response)
  IN
  \* search raises: lines 167-168, or the embedding provider at line 171
  \/ /\ chatbot_id = None
     /\ last' = Out("ValueError", <<>>, <<SearchCalled>>, None)
     /\ UNCHANGED <<indexFile, metaFile, metadata>>
  \/ /\ chatbot_id # None
     /\ last' = Out("ProviderError", <<>>, <<SearchCalled>>, None)
     /\ UNCHANGED <<indexFile, metaFile, metadata>>
  \/ /\ chatbot_id # None
     /\ \E found \in IndexSearch(got.index, AsFloat32(query_embedding), k) :
          LET loop == SearchLoop(metadata[e], found.D, found.I, chatbot_id,
                                 document_ids, 1, <<>>)
              messages == Messages(query, Context(loop.results))
          IN  \/ /\ loop.raised
                 /\ last' = Out("IndexError", <<>>, <<SearchCalled>>, None)
              \/ /\ ~loop.raised
                 /\ NoResults(loop.results)
                 /\ last' = Out("ok", loop.results, <<SearchCalled>>, NoInformation)
              \/ /\ ~loop.raised
                 /\ ~NoResults(loop.results)
                 /\ \/ last' = Out("ProviderError", loop.results,
                                   <<SearchCalled, GenerationCalled(messages)>>, None)
                    \/ \E answer \in Answers :
                         last' = Out("ok", loop.results,
                                     <<SearchCalled, GenerationCalled(messages)>>, answer)
     /\ indexFile' = got.files
     /\ UNCHANGED <<metaFile, metadata>>

Query ==
  /\ last = NoCall
  /\ \E query \in StepQueries, k \in Ks, document_ids \in EngineFilters,
        chatbot_id \in Chatbots \cup {None} :
       QueryKnowledgeBase(MainEngine, query, k, document_ids, chatbot_id)
  /\ UNCHANGED <<running, now, documents>>
QueryRetrieve ==
  /\ last = NoCall
  /\ \E query \in StepQueries, k \in Ks, document_ids \in EngineFilters,
        chatbot_id \in Chatbots \cup {None} :
       Search(MainEngine, query, k, document_ids, chatbot_id)
  /\ UNCHANGED <<running, now, documents>>
QueryIngest ==
  /\ last = NoCall
  /\ \E file_path \in TextFiles, document_id \in DocIds, chatbot_id \in Chatbots :
       AddDocument(MainEngine, file_path, document_id, chatbot_id)
  /\ UNCHANGED <<running, now, documents>>
NextQuery == QueryIngest \/ QueryRetrieve \/ Query \/ Return
SpecQuery == Init /\ [][NextQuery]_vars


\* a query_knowledge_base call that has returned or raised
Queried(call) == call.op = "query_knowledge_base"
\* the calls of the generation provider a query_knowledge_base call made
GenerationCalls(call) ==
  SelectSeq(call.calls, LAMBDA c : c.fn = "chat.completions.create")
\* what search may return on the stores as they are
SearchResultsOn(table, files, query, k, document_ids, chatbot_id) ==
  { SearchLoop(table, found.D, found.I, chatbot_id, document_ids, 1, <<>>).results :
      found \in { f \in IndexSearch(get_or_create_index(files, chatbot_id).index,
                                    AsFloat32(Embed(query)), k) :
                    ~SearchLoop(table, f.D, f.I, chatbot_id, document_ids, 1, <<>>).raised } }

(***************************************************************************)
(* C25: query_knowledge_base calls search first.  When search returns no   *)
(* result the call returns the fixed "no relevant information" answer and  *)
(* the generation provider is not called; when search returns m > 0        *)
(* results the generation provider is called exactly once, with the        *)
(* instruction preamble, the question and the m chunks as blocks labelled  *)
(* Context 1 .. Context m in the order search returned them.               *)
(***************************************************************************)
C25_QueryCallsProviderOnce ==
  Queried(last) =>
    /\ last.calls[1] = SearchCalled
    /\ last.outcome = "ok" =>
         last.search_results \in
           SearchResultsOn(metadata[last.engine], indexFile, last.query, last.k,
                           last.document_ids, last.chatbot_id)
    /\ last.search_results = <<>> =>
         /\ GenerationCalls(last) = <<>>
         /\ last.outcome = "ok" => last.response = NoInformation
    /\ last.search_results # <<>> =>
         /\ Len(GenerationCalls(last)) = 1
         /\ last.calls[2] = GenerationCalls(last)[1]
         /\ LET messages == GenerationCalls(last)[1].messages
                context == messages[2].content.context
            IN  /\ Len(messages) = 2
                /\ messages[1] = [role |-> "system", content |-> KnowledgeBaseInstructions]
                /\ messages[2].role = "user"
                /\ messages[2].content.question = last.query
                /\ Len(context) = Len(last.search_results)
                /\ \A m \in DOMAIN context :
                     /\ context[m].label = m
                     /\ context[m].text = last.search_results[m].chunk
         /\ last.outcome = "ok" => last.response \in Answers
\* the provider has answered on two context blocks, of two different chunks
C25_Witness ==
  /\ Queried(last)
  /\ last.outcome = "ok"
  /\ Len(last.search_results) = 2
  /\ last.search_results[1].chunk # last.search_results[2].chunk
  /\ last.response \in Answers
\* the fixed answer, on a chatbot that has vectors and records
C25_WitnessNoResults ==
  /\ Queried(last)
  /\ last.outcome = "ok"
  /\ last.response = NoInformation
  /\ Total(indexFile, last.chatbot_id) > 0
  /\ RecordsOf(metadata[last.engine], last.chatbot_id) # {}

(***************************************************************************)
(* C29: search and query_knowledge_base leave self.metadata, metadata.json *)
(* and every index file as they were, except that the call creates the     *)
(* index file of its chatbot, with no vector, when there was none.         *)
(***************************************************************************)
C29_ReadsChangeNoStore ==
  [][ (last'.op \in {"search", "query_knowledge_base"}) =>
        /\ metadata' = metadata
        /\ metaFile' = metaFile
        /\ \A c \in Chatbots :
             \/ indexFile'[c] = indexFile[c]
             \/ /\ c = last'.chatbot_id
                /\ ~indexFile[c].exists
                /\ indexFile'[c] = WriteIndexFile(EmptyIndex)
                /\ Total(indexFile', c) = 0 ]_vars
\* a query on a chatbot that has no document has left its index file with no
\* vector, and the other chatbot's vectors and records are there
C29_Witness ==
  /\ Queried(last)
  /\ last.outcome = "ok"
  /\ last.response = NoInformation
  /\ indexFile[last.chatbot_id] = WriteIndexFile(EmptyIndex)
  /\ RecordsOf(metadata[last.engine], last.chatbot_id) = {}
  /\ \E c \in Chatbots \ {last.chatbot_id} :
       /\ Total(indexFile, c) > 1
       /\ Total(indexFile, c) = SumVectors(RecordsOf(load_metadata(metaFile), c))


(***************************************************************************)
(* The HTTP layer over the engine (api/endpoints): the upload endpoint and *)
(* the chatbot creation save each file and insert a row of the table       *)
(* "documents"; the query endpoint and the chat completion read the rows   *)
(* of the chatbot and pass their document_id values to the engine as the   *)
(* filter.  Every request constructs its own FileQA; no request calls      *)
(* add_document, so the table the constructor loads is the empty one the   *)
(* engine holds.                                                           *)
(***************************************************************************)
\* the rows the table may hold
MaxDocuments == 3
\* the files of one request
Uploads == {<<"a.txt">>, <<"b.txt">>, <<"a.txt", "b.txt">>}
\* models.py line 83: default=lambda: str(uuid.uuid4()), a value no row has yet
uuid4(rows) == "uuid_" \o ToString(Len(rows) + 1)
\* sqlalchemy_adapter.py lines 117-127
create_document(rows, file_name, file_path, chatbot_id) ==
  Append(rows, [ document_id |-> uuid4(rows), chatbot_id |-> chatbot_id,
                 file_name |-> file_name, file_path |-> file_path ])
\* sqlalchemy_adapter.py lines 137-144
list_documents(rows, chatbot_id) == SelectSeq(rows, LAMBDA row : row.chatbot_id = chatbot_id)
\* [doc["document_id"] for doc in documents]
DocumentIdsOf(rows) == {rows[i].document_id : i \in DOMAIN rows}
\* lines 53-55: f"{timestamp}_{file.filename}" under knowledge_base/documents
UniqueFilename(t, file_name) == [timestamp |-> Strftime(t), file_name |-> file_name]
\* lines 50-69: the loop over the files; a file whose save or whose insert raises
\* is skipped (lines 67-69)
RECURSIVE UploadLoop(_, _, _, _, _, _, _)
UploadLoop(rows, files, raising, chatbot_id, t, j, document_ids) ==
  IF j > Len(files)
    THEN [rows |-> rows, document_ids |-> document_ids]
    ELSE IF j \in raising
      THEN UploadLoop(rows, files, raising, chatbot_id, t, j + 1, document_ids)
      ELSE LET created == create_document(rows, files[j], UniqueFilename(t, files[j]),
                                          chatbot_id)
           IN  UploadLoop(created, files, raising, chatbot_id, t, j + 1,
                          Append(document_ids, created[Len(created)].document_id))

\* api/endpoints/file_qa.py lines 23-75
upload_document(files, chatbot_id) ==
  \/ /\ files = <<>> \/ chatbot_id = None
     /\ last' = [op |-> "upload_document", outcome |-> "HTTP 400", chatbot_id |-> chatbot_id]
     /\ UNCHANGED <<indexFile, metaFile, metadata, documents>>
  \/ /\ files # <<>>
     /\ chatbot_id # None
     /\ Len(documents) + Len(files) <= MaxDocuments
     /\ \E raising \in SUBSET DOMAIN files :
          LET loop == UploadLoop(documents, files, raising, chatbot_id, now, 1, <<>>)
          IN  /\ documents' = loop.rows
              /\ last' = [ op |-> "upload_document", outcome |-> "success",
                           chatbot_id |-> chatbot_id,
                           document_ids |-> loop.document_ids,
                           total_files_processed |-> Len(loop.document_ids) ]
     \* line 44: FileQA()
     /\ metadata' = [metadata EXCEPT ![MainEngine] = load_metadata(metaFile)]
     /\ UNCHANGED <<indexFile, metaFile>>

\* api/endpoints/agent_interaction.py lines 34-99: the chatbot row is new, so no
\* document row has its id; without files no engine is constructed
create_chatbot(files, chatbot_id) ==
  /\ list_documents(documents, chatbot_id) = <<>>
  /\ Len(documents) + Len(files) <= MaxDocuments
  /\ \E raising \in SUBSET DOMAIN files :
       LET loop == UploadLoop(documents, files, raising, chatbot_id, now, 1, <<>>)
       IN  /\ documents' = loop.rows
           /\ last' = [ op |-> "create_chatbot", outcome |-> "success",
                        chatbot_id |-> chatbot_id,
                        document_ids |-> loop.document_ids,
                        total_files_processed |-> Len(loop.document_ids) ]
  /\ metadata' = IF files = <<>> THEN metadata
                 ELSE [metadata EXCEPT ![MainEngine] = load_metadata(metaFile)]
  /\ UNCHANGED <<indexFile, metaFile>>

\* api/endpoints/file_qa.py lines 77-110: the engine of line 84 loads the table
\* the engine holds, and is asked with the chatbot's rows as the filter
query_knowledge_base_endpoint(query, k, chatbot_id) ==
  LET rows == list_documents(documents, chatbot_id)
  IN  \/ /\ rows = <<>>
         /\ last' = [op |-> "query_endpoint", outcome |-> "HTTP 404", chatbot_id |-> chatbot_id]
         /\ metadata' = [metadata EXCEPT ![MainEngine] = load_metadata(metaFile)]
         /\ UNCHANGED <<indexFile, metaFile>>
      \/ /\ rows # <<>>
         /\ metadata[MainEngine] = load_metadata(metaFile)
         /\ QueryKnowledgeBase(MainEngine, query, k, Filter(DocumentIdsOf(rows)), chatbot_id)

\* api/endpoints/agent_interaction.py lines 222-235: the search of a chat completion
create_chat_completion(query, chatbot_id) ==
  LET rows == list_documents(documents, chatbot_id)
  IN  \/ /\ rows = <<>>
         /\ last' = [op |-> "create_chat_completion", outcome |-> "no documents",
                     chatbot_id |-> chatbot_id]
         /\ UNCHANGED <<indexFile, metaFile, metadata>>
      \/ /\ rows # <<>>
         /\ metadata[MainEngine] = load_metadata(metaFile)
         /\ Search(MainEngine, query, DefaultK, Filter(DocumentIdsOf(rows)), chatbot_id)

Upload ==
  /\ last = NoCall
  /\ \E files \in Uploads \cup {<<>>}, chatbot_id \in Chatbots \cup {None} :
       upload_document(files, chatbot_id)
  /\ UNCHANGED <<running, now>>
CreateChatbot ==
  /\ last = NoCall
  /\ \E files \in Uploads \cup {<<>>}, chatbot_id \in Chatbots :
       create_chatbot(files, chatbot_id)
  /\ UNCHANGED <<running, now>>
QueryEndpoint ==
  /\ last = NoCall
  /\ \E query \in StepQueries, k \in Ks, chatbot_id \in Chatbots :
       query_knowledge_base_endpoint(query, k, chatbot_id)
  /\ UNCHANGED <<running, now, documents>>
ChatCompletion ==
  /\ last = NoCall
  /\ \E query \in StepQueries, chatbot_id \in Chatbots :
       create_chat_completion(query, chatbot_id)
  /\ UNCHANGED <<running, now, documents>>
NextUpload == Upload \/ CreateChatbot \/ QueryEndpoint \/ ChatCompletion \/ Return
SpecUpload == Init /\ [][NextUpload]_vars
\* a request that can be served is served
SpecUploadFair == SpecUpload /\ WF_vars(NextUpload)

\* the document_id values the layer may report
ReportedIds == {"uuid_" \o ToString(n) : n \in 1 .. MaxDocuments}
\* the layer has reported the identifier as processed
Reported(id) == id \in DocumentIdsOf(documents)
\* the engine holds the document for the chatbot of its row: a record, and
\* vectors in the chatbot's index
Ingested(id) ==
  \E i \in DOMAIN documents :
    /\ documents[i].document_id = id
    /\ \E r \in Range(load_metadata(metaFile)) :
         /\ r.doc_id = id
         /\ r.chatbot_id = documents[i].chatbot_id
         /\ r.num_vectors > 0
         /\ r.start_idx + r.num_vectors <= Total(indexFile, r.chatbot_id)

(***************************************************************************)
(* C26: every document_id the upload endpoint or the chatbot creation      *)
(* reports as processed, having inserted its row, eventually has a record  *)
(* in the metadata table and vectors in the index of its chatbot.          *)
(***************************************************************************)
C26_UploadedIsIngested ==
  \A id \in ReportedIds : Reported(id) ~> Ingested(id)


(***************************************************************************)
(* A search that overlaps an add_document call: thread p1 runs             *)
(* add_document statement by statement on the main engine while another    *)
(* thread searches, on the same engine or on another instance constructed  *)
(* over the same storage directory.                                        *)
(***************************************************************************)
OverlapBeginAdd ==
  /\ last = NoCall
  /\ \E p \in StepProcs, file_path \in TextFiles, document_id \in DocIds,
        chatbot_id \in StepChatbots :
       BeginAdd(p, MainEngine, file_path, document_id, chatbot_id)
OverlapConstruct == last = NoCall /\ \E e \in Engines \ {MainEngine} : Construct(e)
OverlapSearch ==
  /\ last = NoCall
  /\ \E e \in Engines, query \in StepQueries, k \in Ks, document_ids \in StepFilters,
        chatbot_id \in StepChatbots :
       Search(e, query, k, document_ids, chatbot_id)
  /\ UNCHANGED <<running, now, documents>>
NextOverlap ==
  \/ OverlapBeginAdd \/ StepAddCheck \/ StepAddGenId \/ StepAddExtract \/ StepAddChunk
  \/ StepAddEmbed \/ StepAddGetIndex \/ StepAddIndexAdd \/ StepAddRecord
  \/ StepAddWriteIndex \/ StepAddSaveMetadata \/ StepReturn
  \/ OverlapConstruct \/ OverlapSearch \/ Return
SpecOverlap == Init /\ [][NextOverlap]_vars

\* the index file of the chatbot and the table of engine e once the
\* add_document call has run to its end on the stores it found
FilesAfter(call) ==
  LET c == call.chatbot_id
      index == IndexAdd(get_or_create_index(call.before.indexFile, c).index,
                        EmbeddingsArray(ChunkEmbeddings(ChunksOfFile(call.file_path))))
  IN  [call.before.indexFile EXCEPT ![c] = WriteIndexFile(index)]
TableBefore(call, e) ==
  IF e = call.engine THEN call.before.metadata[e] ELSE metadata[e]
TableAfter(call, e) ==
  IF e = call.engine
    THEN MetadataSet(call.before.metadata[e],
                     DocumentRecord(call.document_id, call.file_path,
                                    ChunksOfFile(call.file_path),
                                    ReadIndexFile(FilesAfter(call)[call.chatbot_id]),
                                    call.chatbot_id))
    ELSE metadata[e]
\* the search of `last` has run while the add_document call of thread p was
\* in progress for the same chatbot
Overlapping(p) ==
  /\ Searched(last)
  /\ InCall(p)
  /\ running[p].op = "add_document"
  /\ running[p].chatbot_id = last.chatbot_id

(***************************************************************************)
(* C24: a search that runs while an add_document call for the same chatbot *)
(* is in progress, on the same engine or on another instance, does not     *)
(* raise and returns what it would return on the stores before the         *)
(* ingestion or what it would return on the stores after it.               *)
(***************************************************************************)
C24_PreOrPostResult ==
  \A p \in StepProcs, query \in StepQueries :
    Overlapping(p) =>
      /\ last.outcome = "ok"
      /\ last.results \in
           SearchResultsOn(TableBefore(running[p], last.engine), running[p].before.indexFile,
                           query, last.k, last.document_ids, last.chatbot_id)
           \cup
           SearchResultsOn(TableAfter(running[p], last.engine), FilesAfter(running[p]),
                           query, last.k, last.document_ids, last.chatbot_id)
====
